---------------------------- MODULE Spec2Model ----------------------------
(***************************************************************************)
(* A model of dovecot's IMAP BODYSTRUCTURE codec (lib-imap/                *)
(* imap-bodystructure.c): the header classifier that fills a part's        *)
(* MessagePartBodyData, the Content-Language token parser, the recursive   *)
(* BODY/BODYSTRUCTURE writer and the BODYSTRUCTURE -> BODY reducer; and    *)
(* of the ACL plugin's cache of rights masks (plugins/acl/acl-cache.c).    *)
(*                                                                         *)
(* Text is modelled byte for byte as TLA+ strings.  A C pointer that may   *)
(* be NULL is modelled as a sequence of length 0 (NULL) or 1 (the value).  *)
(***************************************************************************)
EXTENDS Naturals, Sequences, FiniteSets, TLC

VARIABLES
    run,       \* which entry point of the codec this run exercises
    part,      \* header walk: the MessagePart whose headers are being read
    hdrs,      \* header walk: the header lines delivered to it so far
    lang,      \* one run of parse_content_language, token by token
    tree,      \* writer: the MessagePart tree handed to the writer
    body,      \* writer: outcome of part_get_bodystructure per extended flag
    reduced,   \* reducer: outcome of imap_body_parse_from_bodystructure
    args,      \* reducer: an argument tree handed to the reducer directly
    cache,     \* ACL cache: struct acl_cache, its objects and right names
    acl        \* ACL cache: the last call made on it and what it returned

vars == <<run, part, hdrs, lang, tree, body, reduced, args, cache, acl>>

(***************************************************************************)
(* Bounds of the model.                                                    *)
(***************************************************************************)
MaxHeaders == 3
MaxTokens == 4
MaxChildren == 2

(***************************************************************************)
(* C values.                                                               *)
(***************************************************************************)
NULL == <<>>
Some(v) == <<v>>
NVL(p, default) == IF p = NULL THEN default ELSE p[1]

\* the sequences over S of length at most n
RECURSIVE SeqsUpTo(_, _)
SeqsUpTo(S, n) ==
    IF n = 0 THEN { <<>> }
    ELSE LET shorter == SeqsUpTo(S, n - 1)
         IN shorter \cup { Append(q, x) : q \in shorter, x \in S }

UpperChars == "ABCDEFGHIJKLMNOPQRSTUVWXYZ"
LowerChars == "abcdefghijklmnopqrstuvwxyz"

CharAt(s, i) == SubSeq(s, i, i)

LowerOf ==
    [c \in { CharAt(UpperChars, i) : i \in 1..Len(UpperChars) } |->
        CharAt(LowerChars, CHOOSE i \in 1..Len(UpperChars) : CharAt(UpperChars, i) = c)]

tolower(c) == IF c \in DOMAIN LowerOf THEN LowerOf[c] ELSE c

\* strncasecmp(a, b, n) == 0, for strings that hold no NUL byte
strncasecmp(a, b, n) ==
    LET la == IF Len(a) < n THEN Len(a) ELSE n
        lb == IF Len(b) < n THEN Len(b) ELSE n
    IN /\ la = lb
       /\ \A i \in 1..la : tolower(CharAt(a, i)) = tolower(CharAt(b, i))

\* strcasecmp(a, b) == 0
strcasecmp(a, b) ==
    /\ Len(a) = Len(b)
    /\ \A i \in 1..Len(a) : tolower(CharAt(a, i)) = tolower(CharAt(b, i))

(***************************************************************************)
(* RFC822 tokens, as the tokenizer hands them to the callbacks: the token  *)
(* class character and the bytes ptr[0..len).                              *)
(***************************************************************************)
Atom(s) == [token |-> "A", text |-> s]
QuotedString(s) == [token |-> "\"", text |-> s]
Comment(s) == [token |-> "(", text |-> s]
Special(c) == [token |-> c, text |-> ""]

IS_TOKEN_STRING(t) == t \in {"A", "\"", "(", "["}

RECURSIVE tokens_value(_)
tokens_value(tokens) ==
    IF tokens = <<>> THEN ""
    ELSE LET t == Head(tokens)
             s == IF t.token = "(" THEN ""
                  ELSE IF IS_TOKEN_STRING(t.token) THEN t.text
                  ELSE t.token
         IN s \o tokens_value(Tail(tokens))

rfc822_tokens_get_value_quoted(tokens) == "\"" \o tokens_value(tokens) \o "\""

imap_quote_value(value) == "\"" \o value \o "\""

(***************************************************************************)
(* MessagePartBodyData (lines 17-31).  str is scratch storage that lives   *)
(* for one header only and is modelled inside the branches that use it.    *)
(***************************************************************************)
NewBodyData ==
    [content_type |-> NULL, content_subtype |-> NULL,
     content_type_params |-> NULL,
     content_transfer_encoding |-> NULL,
     content_id |-> NULL,
     content_description |-> NULL,
     content_disposition |-> NULL,
     content_disposition_params |-> NULL,
     content_md5 |-> NULL,
     content_language |-> NULL,
     envelope |-> NULL]

\* index of the first '/' token, or Len(tokens)+1 (the C loop's i == count)
RECURSIVE find_separator(_, _)
find_separator(tokens, i) ==
    IF i > Len(tokens) THEN i
    ELSE IF tokens[i].token = "/" THEN i
    ELSE find_separator(tokens, i + 1)

parse_content_type(tokens, data) ==
    LET i == find_separator(tokens, 1)
    IN [data EXCEPT
          !.content_type =
              Some(rfc822_tokens_get_value_quoted(SubSeq(tokens, 1, i - 1))),
          !.content_subtype =
              Some(rfc822_tokens_get_value_quoted(SubSeq(tokens, i + 1, Len(tokens))))]

\* one call of the parameter callback: str is the scratch string
parse_save_params_list(name, value, str) ==
    (IF Len(str) # 0 THEN str \o " " ELSE str)
        \o "\"" \o name.text \o "\" "
        \o rfc822_tokens_get_value_quoted(value)

parse_content_transfer_encoding(tokens, data) ==
    [data EXCEPT !.content_transfer_encoding =
                     Some(rfc822_tokens_get_value_quoted(tokens))]

parse_content_disposition(tokens, data) ==
    [data EXCEPT !.content_disposition =
                     Some(rfc822_tokens_get_value_quoted(tokens))]

(***************************************************************************)
(* parse_content_language (lines 94-146): the loop body as one step over   *)
(* the pair (str, quoted), then the closing quote.                         *)
(***************************************************************************)
\* a parser in which a comma does not close the open tag
language_token_comma_ignored(s, t) ==
    IF t.token = "(" \/ t.token = "," THEN s
    ELSE
        LET opened == IF ~s.quoted
                      THEN (IF Len(s.str) > 0 THEN s.str \o " " ELSE s.str) \o "\""
                      ELSE s.str
        IN [str |-> opened \o (IF IS_TOKEN_STRING(t.token) THEN t.text ELSE t.token),
            quoted |-> TRUE]

language_token(s, t) ==
    IF t.token = "(" THEN s
    ELSE IF t.token = "," THEN
        IF s.quoted THEN [str |-> s.str \o "\"", quoted |-> FALSE] ELSE s
    ELSE
        LET opened == IF ~s.quoted
                      THEN (IF Len(s.str) > 0 THEN s.str \o " " ELSE s.str) \o "\""
                      ELSE s.str
        IN [str |-> opened \o (IF IS_TOKEN_STRING(t.token) THEN t.text ELSE t.token),
            quoted |-> TRUE]

language_close(s) == IF s.quoted THEN s.str \o "\"" ELSE s.str

RECURSIVE language_loop(_, _)
language_loop(s, tokens) ==
    IF tokens = <<>> THEN s
    ELSE language_loop(language_token(s, Head(tokens)), Tail(tokens))

\* a parser that keeps the first Content-Language, like the set-once fields
parse_content_language_set_once(tokens, data) ==
    IF Len(tokens) <= 0 \/ data.content_language # NULL THEN data
    ELSE [data EXCEPT !.content_language =
              Some(language_close(
                  language_loop([str |-> "", quoted |-> FALSE], tokens)))]

parse_content_language(tokens, data) ==
    IF Len(tokens) <= 0 THEN data
    ELSE [data EXCEPT !.content_language =
              Some(language_close(
                  language_loop([str |-> "", quoted |-> FALSE], tokens)))]


(***************************************************************************)
(* A header value as message_content_parse_header sees it: the raw bytes,  *)
(* the tokens before the first ';' (handed to the value callback, once)    *)
(* and the name=value pairs after it (handed to the parameter callback).   *)
(***************************************************************************)
HeaderValue(raw, main, params) == [raw |-> raw, main |-> main, params |-> params]
Param(name, value) == [name |-> Atom(name), value |-> value]

RECURSIVE save_params(_, _)
save_params(params, str) ==
    IF params = <<>> THEN str
    ELSE save_params(Tail(params),
                     parse_save_params_list(Head(params).name, Head(params).value, str))

\* the envelope builder: accumulates the header names it is given
imap_envelope_parse_header(envelope, name) ==
    Some(Append(NVL(envelope, <<>>), name))

(***************************************************************************)
(* parse_header (lines 148-221).  A part is its parent link, its parent's  *)
(* flags and its context pointer.                                          *)
(***************************************************************************)
parent_is_rfc822(p) == p.has_parent /\ "MESSAGE_RFC822" \in p.parent_flags

\* a classifier that tests the prefix with case and forgets the parent
header_is_dropped_case_sensitive(p, name) ==
    Len(name) <= 8 \/ SubSeq(name, 1, 8) # "Content-"

header_is_dropped(p, name) ==
    ~parent_is_rfc822(p) /\ (Len(name) <= 8 \/ ~strncasecmp(name, "Content-", 8))

\* a classifier whose Content-Transfer-Encoding branch has no set-once guard
parse_header_fields_unguarded(data, name, value, parent_rfc822) ==
    IF strcasecmp(name, "Content-Type") /\ data.content_type = NULL THEN
        [parse_content_type(value.main, data) EXCEPT
            !.content_type_params = Some(save_params(value.params, ""))]
    ELSE IF strcasecmp(name, "Content-Transfer-Encoding") THEN
        parse_content_transfer_encoding(value.main, data)
    ELSE IF strcasecmp(name, "Content-ID") /\ data.content_id = NULL THEN
        [data EXCEPT !.content_id = Some(imap_quote_value(value.raw))]
    ELSE IF strcasecmp(name, "Content-Description")
            /\ data.content_description = NULL THEN
        [data EXCEPT !.content_description = Some(imap_quote_value(value.raw))]
    ELSE IF strcasecmp(name, "Content-Disposition")
            /\ data.content_disposition_params = NULL THEN
        [parse_content_disposition(value.main, data) EXCEPT
            !.content_disposition_params = Some(save_params(value.params, ""))]
    ELSE IF strcasecmp(name, "Content-Language") THEN
        parse_content_language(value.main, data)
    ELSE IF strcasecmp(name, "Content-MD5") /\ data.content_md5 = NULL THEN
        [data EXCEPT !.content_md5 = Some(imap_quote_value(value.raw))]
    ELSE IF parent_rfc822 THEN
        [data EXCEPT !.envelope = imap_envelope_parse_header(data.envelope, name)]
    ELSE data

parse_header_fields(data, name, value, parent_rfc822) ==
    IF strcasecmp(name, "Content-Type") /\ data.content_type = NULL THEN
        [parse_content_type(value.main, data) EXCEPT
            !.content_type_params = Some(save_params(value.params, ""))]
    ELSE IF strcasecmp(name, "Content-Transfer-Encoding")
            /\ data.content_transfer_encoding = NULL THEN
        parse_content_transfer_encoding(value.main, data)
    ELSE IF strcasecmp(name, "Content-ID") /\ data.content_id = NULL THEN
        [data EXCEPT !.content_id = Some(imap_quote_value(value.raw))]
    ELSE IF strcasecmp(name, "Content-Description")
            /\ data.content_description = NULL THEN
        [data EXCEPT !.content_description = Some(imap_quote_value(value.raw))]
    ELSE IF strcasecmp(name, "Content-Disposition")
            /\ data.content_disposition_params = NULL THEN
        [parse_content_disposition(value.main, data) EXCEPT
            !.content_disposition_params = Some(save_params(value.params, ""))]
    ELSE IF strcasecmp(name, "Content-Language") THEN
        parse_content_language(value.main, data)
    ELSE IF strcasecmp(name, "Content-MD5") /\ data.content_md5 = NULL THEN
        [data EXCEPT !.content_md5 = Some(imap_quote_value(value.raw))]
    ELSE IF parent_rfc822 THEN
        [data EXCEPT !.envelope = imap_envelope_parse_header(data.envelope, name)]
    ELSE data

parse_header(p, name, value) ==
    IF header_is_dropped(p, name) THEN p
    ELSE LET data == IF p.context = NULL THEN NewBodyData ELSE p.context[1]
         IN [p EXCEPT !.context =
                 Some(parse_header_fields(data, name, value, parent_is_rfc822(p)))]

(***************************************************************************)
(* The writer (lines 244-420).  A TempString being written is the text so  *)
(* far and whether the process is still running: "ok", "assert" after a    *)
(* failed i_assert, "undefined" after a NULL char pointer was appended.    *)
(* null_append names what appending a NULL char pointer does in the build  *)
(* at hand: "crash", or "empty" when it appends nothing.                   *)
(***************************************************************************)
EMPTY_BODYSTRUCTURE ==
    "(\"text\" \"plain\" (\"charset\" \"us-ascii\") NIL NIL \"7bit\" 0 0)"

NullAppends == {"crash", "empty"}

t_string_new == [status |-> "ok", str |-> ""]

t_string_append(r, s) ==
    IF r.status = "ok" THEN [r EXCEPT !.str = @ \o s] ELSE r

\* t_string_append(str, p) where p may be NULL
t_string_append_ptr(r, p, null_append) ==
    IF r.status # "ok" THEN r
    ELSE IF p # NULL THEN t_string_append(r, p[1])
    ELSE IF null_append = "crash" THEN [r EXCEPT !.status = "undefined"]
    ELSE r

i_assert(r, cond) ==
    IF r.status = "ok" /\ ~cond THEN [r EXCEPT !.status = "assert"] ELSE r

\* "NIL" or the parenthesized text
write_list_or_nil(r, p) ==
    IF p = NULL THEN t_string_append(r, "NIL")
    ELSE t_string_append(r, "(" \o p[1] \o ")")

\* the envelope writer: the accumulated header names, quoted
RECURSIVE imap_envelope_write_part_data(_)
imap_envelope_write_part_data(envelope) ==
    IF envelope = <<>> THEN ""
    ELSE "\"" \o Head(envelope) \o "\""
         \o (IF Len(envelope) > 1 THEN " " ELSE "")
         \o imap_envelope_write_part_data(Tail(envelope))

\* lines 266-297
multipart_extension(data, r) ==
    LET r1 == write_list_or_nil(t_string_append(r, " "), data.content_type_params)
        r2 == t_string_append(r1, " ")
        r3 == IF data.content_disposition = NULL THEN t_string_append(r2, "NIL")
              ELSE t_string_append(r2,
                     "(" \o data.content_disposition[1]
                     \o (IF data.content_disposition_params # NULL
                         THEN " (" \o data.content_disposition_params[1] \o ")"
                         ELSE "")
                     \o ")")
    IN write_list_or_nil(t_string_append(r3, " "), data.content_language)

\* lines 360-389
leaf_extension(data, r) ==
    LET r1 == t_string_append(r, " " \o NVL(data.content_md5, "NIL"))
        r2 == t_string_append(r1, " ")
        r3 == IF data.content_disposition = NULL THEN t_string_append(r2, "NIL")
              ELSE t_string_append(r2,
                     "(" \o data.content_disposition[1] \o ")"
                     \o (IF data.content_disposition_params # NULL
                         THEN " (" \o data.content_disposition_params[1] \o ")"
                         ELSE ""))
    IN write_list_or_nil(t_string_append(r3, " "), data.content_language)

\* lines 309-328
leaf_basic_fields(p, data, r) ==
    LET r1 == t_string_append(r, NVL(data.content_type, "\"text\"") \o " "
                                 \o NVL(data.content_subtype, "\"plain\""))
        r2 == write_list_or_nil(t_string_append(r1, " "), data.content_type_params)
    IN t_string_append(r2,
           " " \o NVL(data.content_id, "NIL")
           \o " " \o NVL(data.content_description, "NIL")
           \o " " \o NVL(data.content_transfer_encoding, "\"8bit\"")
           \o " " \o ToString(p.virtual_size))

RECURSIVE part_write_bodystructure(_, _, _, _, _)
RECURSIVE part_write_body_multipart(_, _, _, _)
RECURSIVE part_write_body(_, _, _, _)

part_write_body_multipart(p, r, extended, null_append) ==
    LET r0 == i_assert(r, p.context # NULL)
    IN IF r0.status # "ok" THEN r0
       ELSE LET data == p.context[1]
                r1 == IF p.children # <<>>
                      THEN part_write_bodystructure(p.children, TRUE, r0, extended,
                                                    null_append)
                      ELSE t_string_append(r0, EMPTY_BODYSTRUCTURE)
                r2 == t_string_append_ptr(t_string_append(r1, " "),
                                          data.content_subtype, null_append)
            IN IF ~extended THEN r2 ELSE multipart_extension(data, r2)

\* lines 333-355: the message/rfc822 trailer
rfc822_trailer(p, r, extended, null_append) ==
    LET r0 == i_assert(i_assert(r, p.children # <<>>), Len(p.children) <= 1)
    IN IF r0.status # "ok" THEN r0
       ELSE LET child_data == p.children[1].context
                r1 == t_string_append(r0, " ")
                r2 == IF child_data # NULL /\ child_data[1].envelope # NULL
                      THEN t_string_append(r1,
                             "(" \o imap_envelope_write_part_data(child_data[1].envelope[1])
                             \o ")")
                      ELSE t_string_append(r1, "NIL")
                r3 == part_write_bodystructure(p.children, TRUE,
                                               t_string_append(r2, " "),
                                               extended, null_append)
            IN t_string_append(r3, " " \o ToString(p.lines))

\* a writer that, when extended, puts the extension fields before the trailer
part_write_body_extension_first(p, r, extended, null_append) ==
    LET data == IF p.context = NULL THEN NewBodyData ELSE p.context[1]
        r1 == leaf_basic_fields(p, data, r)
        r2 == IF extended THEN leaf_extension(data, r1) ELSE r1
    IN IF "TEXT" \in p.flags
       THEN t_string_append(r2, " " \o ToString(p.lines))
       ELSE IF "MESSAGE_RFC822" \in p.flags
       THEN rfc822_trailer(p, r2, extended, null_append)
       ELSE r2

part_write_body(p, r, extended, null_append) ==
    LET data == IF p.context = NULL THEN NewBodyData ELSE p.context[1]
        r1 == leaf_basic_fields(p, data, r)
        r2 == IF "TEXT" \in p.flags
              THEN t_string_append(r1, " " \o ToString(p.lines))
              ELSE IF "MESSAGE_RFC822" \in p.flags
              THEN rfc822_trailer(p, r1, extended, null_append)
              ELSE r1
    IN IF ~extended THEN r2 ELSE leaf_extension(data, r2)

\* one round of the while loop of lines 397-410
write_one_part(p, has_parent, r, extended, null_append) ==
    LET r1 == IF has_parent THEN t_string_append(r, "(") ELSE r
        r2 == IF "MULTIPART" \in p.flags
              THEN part_write_body_multipart(p, r1, extended, null_append)
              ELSE part_write_body(p, r1, extended, null_append)
    IN IF has_parent THEN t_string_append(r2, ")") ELSE r2

RECURSIVE write_siblings(_, _, _, _, _)
write_siblings(parts, has_parent, r, extended, null_append) ==
    IF parts = <<>> THEN r
    ELSE write_siblings(Tail(parts), has_parent,
                        write_one_part(Head(parts), has_parent, r, extended, null_append),
                        extended, null_append)

\* parts: a part and its next siblings
part_write_bodystructure(parts, has_parent, r, extended, null_append) ==
    write_siblings(parts, has_parent, i_assert(r, has_parent \/ Len(parts) <= 1),
                   extended, null_append)

part_get_bodystructure(root, extended, null_append) ==
    part_write_bodystructure(<<root>>, FALSE, t_string_new, extended, null_append)

(***************************************************************************)
(* ImapArg trees.  An argument array ends with an IMAP_ARG_EOL element,    *)
(* which ArgAt supplies at index Len + 1.                                  *)
(***************************************************************************)
NilArg == [type |-> "NIL", str |-> "", list |-> <<>>]
AtomArg(s) == [type |-> "ATOM", str |-> s, list |-> <<>>]
StringArg(s) == [type |-> "STRING", str |-> s, list |-> <<>>]
ListArg(l) == [type |-> "LIST", str |-> "", list |-> l]
EolArg == [type |-> "EOL", str |-> "", list |-> <<>>]

ArgAt(a, i) == IF i <= Len(a) THEN a[i] ELSE EolArg

(***************************************************************************)
(* The IMAP argument parser, run with IMAP_PARSE_FLAG_NO_UNESCAPE: text to *)
(* NIL, atoms, quoted strings (kept raw, escapes included) and lists.      *)
(* ret is the number of arguments read, or -1 (here: ok = FALSE).          *)
(***************************************************************************)
\* index of the quote that closes the string whose text starts at i, or 0
RECURSIVE closing_quote(_, _)
closing_quote(s, i) ==
    IF i > Len(s) THEN 0
    ELSE IF CharAt(s, i) = "\\" THEN closing_quote(s, i + 2)
    ELSE IF CharAt(s, i) = "\"" THEN i
    ELSE closing_quote(s, i + 1)

\* index just after the atom that starts at i
RECURSIVE atom_end(_, _)
atom_end(s, i) ==
    IF i > Len(s) \/ CharAt(s, i) \in {" ", "(", ")", "\""} THEN i
    ELSE atom_end(s, i + 1)

\* reads the items of one list (depth > 0) or of the whole line (depth = 0)
RECURSIVE read_items(_, _, _, _)
read_items(s, i, depth, acc) ==
    IF i > Len(s) THEN [ok |-> depth = 0, args |-> acc, pos |-> i]
    ELSE LET c == CharAt(s, i)
         IN IF c = " " THEN read_items(s, i + 1, depth, acc)
            ELSE IF c = ")" THEN [ok |-> depth > 0, args |-> acc, pos |-> i + 1]
            ELSE IF c = "(" THEN
                LET sub == read_items(s, i + 1, depth + 1, <<>>)
                IN IF ~sub.ok THEN [ok |-> FALSE, args |-> acc, pos |-> sub.pos]
                   ELSE read_items(s, sub.pos, depth, Append(acc, ListArg(sub.args)))
            ELSE IF c = "\"" THEN
                LET j == closing_quote(s, i + 1)
                IN IF j = 0 THEN [ok |-> FALSE, args |-> acc, pos |-> i]
                   ELSE read_items(s, j + 1, depth,
                                   Append(acc, StringArg(SubSeq(s, i + 1, j - 1))))
            ELSE
                LET j == atom_end(s, i)
                    a == SubSeq(s, i, j - 1)
                IN read_items(s, j, depth,
                              Append(acc, IF strcasecmp(a, "NIL") THEN NilArg
                                          ELSE AtomArg(a)))

imap_parser_read_args(text) ==
    LET r == read_items(text, 1, 0, <<>>)
    IN [ok |-> r.ok, args |-> IF r.ok THEN r.args ELSE <<>>]

(***************************************************************************)
(* The reducer (lines 437-610).  A call returns whether it succeeded and   *)
(* the text written so far.                                                *)
(***************************************************************************)
RECURSIVE imap_write_list(_, _)
RECURSIVE write_list_items(_, _, _)

\* the while loop of lines 441-465, from element i on
write_list_items(a, i, str) ==
    IF ArgAt(a, i).type = "EOL" THEN [ok |-> TRUE, str |-> str]
    ELSE LET x == a[i]
             r == IF x.type = "NIL" THEN [ok |-> TRUE, str |-> str \o "NIL"]
                  ELSE IF x.type = "ATOM" THEN [ok |-> TRUE, str |-> str \o x.str]
                  ELSE IF x.type = "STRING"
                  THEN [ok |-> TRUE, str |-> str \o "\"" \o x.str \o "\""]
                  ELSE IF x.type = "LIST" THEN imap_write_list(x.list, str)
                  ELSE [ok |-> FALSE, str |-> str]
         IN IF ~r.ok THEN r
            ELSE write_list_items(a, i + 1,
                     IF ArgAt(a, i + 1).type # "EOL" THEN r.str \o " " ELSE r.str)

imap_write_list(a, str) ==
    LET r == write_list_items(a, 1, str \o "(")
    IN IF r.ok THEN [ok |-> TRUE, str |-> r.str \o ")"] ELSE r

RECURSIVE imap_parse_bodystructure_args(_, _)
RECURSIVE reduce_children(_, _, _)

\* a reducer that goes on after a child list failed to reduce
reduce_children_lenient(a, i, str) ==
    IF ArgAt(a, i).type # "LIST" THEN [ok |-> TRUE, str |-> str, i |-> i]
    ELSE LET r == imap_parse_bodystructure_args(a[i].list, str \o "(")
         IN reduce_children(a, i + 1, r.str \o ")")

\* a reducer that separates the children with a space
reduce_children_spaced(a, i, str) ==
    IF ArgAt(a, i).type # "LIST" THEN [ok |-> TRUE, str |-> str, i |-> i]
    ELSE LET r == imap_parse_bodystructure_args(a[i].list,
                      (IF i > 1 THEN str \o " " ELSE str) \o "(")
         IN IF ~r.ok THEN [ok |-> FALSE, str |-> r.str, i |-> i]
            ELSE reduce_children(a, i + 1, r.str \o ")")

\* lines 476-484: the leading lists, from element i on; i ends at the first
\* element that is no list
reduce_children(a, i, str) ==
    IF ArgAt(a, i).type # "LIST" THEN [ok |-> TRUE, str |-> str, i |-> i]
    ELSE LET r == imap_parse_bodystructure_args(a[i].list, str \o "(")
         IN IF ~r.ok THEN [ok |-> FALSE, str |-> r.str, i |-> i]
            ELSE reduce_children(a, i + 1, r.str \o ")")

\* lines 511-524: the pairs of the params list, from element j on
RECURSIVE reduce_params(_, _, _)
reduce_params(subargs, j, str) ==
    IF ArgAt(subargs, j).type = "EOL" THEN [ok |-> TRUE, str |-> str]
    ELSE IF ArgAt(subargs, j).type # "STRING" \/ ArgAt(subargs, j + 1).type # "STRING"
    THEN [ok |-> FALSE, str |-> str]
    ELSE LET out == str \o "\"" \o subargs[j].str \o "\" \"" \o subargs[j + 1].str \o "\""
         IN IF ArgAt(subargs, j + 2).type = "EOL" THEN [ok |-> TRUE, str |-> out]
            ELSE reduce_params(subargs, j + 2, out \o " ")

\* lines 508-530
reduce_params_field(x, str) ==
    IF x.type = "LIST" THEN
        LET r == reduce_params(x.list, 1, str \o " (")
        IN IF r.ok THEN [ok |-> TRUE, str |-> r.str \o ")"] ELSE r
    ELSE IF x.type = "NIL" THEN [ok |-> TRUE, str |-> str \o " NIL"]
    ELSE [ok |-> FALSE, str |-> str]

\* lines 534-545: n more items copied, from element i on
RECURSIVE reduce_copied(_, _, _, _)

\* a reducer that copies a list among the four items through imap_write_list
reduce_copied_lists_too(a, i, n, str) ==
    IF n = 0 THEN [ok |-> TRUE, str |-> str]
    ELSE LET x == ArgAt(a, i)
         IN IF x.type = "NIL" THEN reduce_copied(a, i + 1, n - 1, str \o " NIL")
            ELSE IF x.type = "ATOM" THEN reduce_copied(a, i + 1, n - 1, str \o " " \o x.str)
            ELSE IF x.type = "STRING"
            THEN reduce_copied(a, i + 1, n - 1, str \o " \"" \o x.str \o "\"")
            ELSE IF x.type = "LIST"
            THEN reduce_copied(a, i + 1, n - 1, imap_write_list(x.list, str \o " ").str)
            ELSE [ok |-> FALSE, str |-> str]

reduce_copied(a, i, n, str) ==
    IF n = 0 THEN [ok |-> TRUE, str |-> str]
    ELSE LET x == ArgAt(a, i)
         IN IF x.type = "NIL" THEN reduce_copied(a, i + 1, n - 1, str \o " NIL")
            ELSE IF x.type = "ATOM" THEN reduce_copied(a, i + 1, n - 1, str \o " " \o x.str)
            ELSE IF x.type = "STRING"
            THEN reduce_copied(a, i + 1, n - 1, str \o " \"" \o x.str \o "\"")
            ELSE [ok |-> FALSE, str |-> str]

\* a reducer that does not copy the line count of a text part
reduce_trailer_without_lines(a, i, text, message_rfc822, str) ==
    IF text THEN
        IF ArgAt(a, i).type # "ATOM" THEN [ok |-> FALSE, str |-> str]
        ELSE [ok |-> TRUE, str |-> str]
    ELSE IF message_rfc822 THEN
        IF \/ ArgAt(a, i).type # "LIST"
           \/ ArgAt(a, i + 1).type # "LIST"
           \/ ArgAt(a, i + 2).type # "ATOM"
        THEN [ok |-> FALSE, str |-> str]
        ELSE LET r1 == imap_write_list(a[i].list, str \o " ")
             IN IF ~r1.ok THEN r1
                ELSE LET r2 == imap_parse_bodystructure_args(a[i + 1].list, r1.str \o " ")
                     IN IF ~r2.ok THEN r2
                        ELSE [ok |-> TRUE, str |-> r2.str \o " " \o a[i + 2].str]
    ELSE [ok |-> TRUE, str |-> str]

\* lines 547-576: the trailer, the items from element i on
reduce_trailer(a, i, text, message_rfc822, str) ==
    IF text THEN
        IF ArgAt(a, i).type # "ATOM" THEN [ok |-> FALSE, str |-> str]
        ELSE [ok |-> TRUE, str |-> str \o " " \o a[i].str]
    ELSE IF message_rfc822 THEN
        IF \/ ArgAt(a, i).type # "LIST"
           \/ ArgAt(a, i + 1).type # "LIST"
           \/ ArgAt(a, i + 2).type # "ATOM"
        THEN [ok |-> FALSE, str |-> str]
        ELSE LET r1 == imap_write_list(a[i].list, str \o " ")
             IN IF ~r1.ok THEN r1
                ELSE LET r2 == imap_parse_bodystructure_args(a[i + 1].list, r1.str \o " ")
                     IN IF ~r2.ok THEN r2
                        ELSE [ok |-> TRUE, str |-> r2.str \o " " \o a[i + 2].str]
    ELSE [ok |-> TRUE, str |-> str]

\* lines 495-577
reduce_leaf(a, str) ==
    IF ArgAt(a, 1).type # "STRING" \/ ArgAt(a, 2).type # "STRING"
    THEN [ok |-> FALSE, str |-> str]
    ELSE LET text == strcasecmp(a[1].str, "text")
             message_rfc822 == strcasecmp(a[1].str, "message")
                               /\ strcasecmp(a[2].str, "rfc822")
             r1 == reduce_params_field(
                       ArgAt(a, 3),
                       str \o "\"" \o a[1].str \o "\" \"" \o a[2].str \o "\"")
         IN IF ~r1.ok THEN r1
            ELSE LET r2 == reduce_copied(a, 4, 4, r1.str)
                 IN IF ~r2.ok THEN r2
                    ELSE reduce_trailer(a, 8, text, message_rfc822, r2.str)

imap_parse_bodystructure_args(a, str) ==
    LET c == reduce_children(a, 1, str)
    IN IF ~c.ok THEN [ok |-> FALSE, str |-> c.str]
       ELSE IF c.i > 1 THEN
           \* multipart: next is the subtype, the rest is skipped
           IF ArgAt(a, c.i).type # "STRING" THEN [ok |-> FALSE, str |-> c.str]
           ELSE [ok |-> TRUE, str |-> c.str \o " \"" \o a[c.i].str \o "\""]
       ELSE reduce_leaf(a, str)

\* lines 599-602: ret is imap_parser_read_args' return value
body_from_args(ret, a) ==
    IF ret <= 0 THEN NULL
    ELSE LET r == imap_parse_bodystructure_args(a, "")
         IN IF r.ok THEN Some(r.str) ELSE NULL

imap_body_parse_from_bodystructure(bodystructure) ==
    LET p == imap_parser_read_args(bodystructure)
    IN IF ~p.ok THEN NULL ELSE body_from_args(Len(p.args), p.args)

(***************************************************************************)
(* The header lines of the model.                                          *)
(***************************************************************************)
V_text_plain ==
    HeaderValue("text/plain; charset=us-ascii",
                <<Atom("text"), Special("/"), Atom("plain")>>,
                <<Param("charset", <<Atom("us-ascii")>>)>>)
V_image_png ==
    HeaderValue("IMAGE/png; name=a.png; x=y",
                <<Atom("IMAGE"), Special("/"), Atom("png")>>,
                <<Param("name", <<Atom("a.png")>>), Param("x", <<Atom("y")>>)>>)
V_TEXT_html ==
    HeaderValue("TEXT/html", <<Atom("TEXT"), Special("/"), Atom("html")>>, <<>>)
V_message_rfc822 ==
    HeaderValue("Message/RFC822", <<Atom("Message"), Special("/"), Atom("RFC822")>>, <<>>)
V_multipart_mixed ==
    HeaderValue("multipart/mixed; boundary=b",
                <<Atom("multipart"), Special("/"), Atom("mixed")>>,
                <<Param("boundary", <<Atom("b")>>)>>)
V_7bit == HeaderValue("7bit", <<Atom("7bit")>>, <<>>)
V_base64 == HeaderValue("base64", <<Atom("base64")>>, <<>>)
V_id1 == HeaderValue("<id1@host>", <<Special("<"), Atom("id1"), Special("@"), Atom("host"), Special(">")>>, <<>>)
V_id2 == HeaderValue("<id2@host>", <<Special("<"), Atom("id2"), Special("@"), Atom("host"), Special(">")>>, <<>>)
V_inline ==
    HeaderValue("inline; filename=a.txt", <<Atom("inline")>>,
                <<Param("filename", <<Atom("a.txt")>>)>>)
V_attachment == HeaderValue("attachment", <<Atom("attachment")>>, <<>>)
V_lang_list ==
    HeaderValue("en-US, (comment) az-arabic",
                <<Atom("en-US"), Special(","), Comment("comment"), Atom("az-arabic")>>, <<>>)
V_lang_fr == HeaderValue("fr", <<Atom("fr")>>, <<>>)
V_lang_comment == HeaderValue("(none)", <<Comment("none")>>, <<>>)
V_empty == HeaderValue("", <<>>, <<>>)
V_hello == HeaderValue("hello", <<Atom("hello")>>, <<>>)

Line(name, value) == [name |-> name, value |-> value]

HeaderLines ==
    { Line("Content-Type", V_text_plain),
      Line("content-type", V_image_png),
      Line("Content-Transfer-Encoding", V_7bit),
      Line("CONTENT-TRANSFER-ENCODING", V_base64),
      Line("Content-ID", V_id1),
      Line("Content-Id", V_id2),
      Line("Content-Description", V_hello),
      Line("Content-Description", V_7bit),
      Line("Content-Disposition", V_inline),
      Line("Content-Disposition", V_attachment),
      Line("Content-MD5", V_id1),
      Line("Content-MD5", V_base64),
      Line("Content-Language", V_lang_list),
      Line("Content-Language", V_lang_fr),
      Line("Content-Language", V_lang_comment),
      Line("Content-Language", V_empty),
      Line("Subject", V_hello),
      Line("Content-", V_hello),
      Line("Contentment", V_hello),
      Line("Content-Foo", V_hello) }

Parents ==
    { [has_parent |-> FALSE, parent_flags |-> {}],
      [has_parent |-> TRUE, parent_flags |-> {"MULTIPART"}],
      [has_parent |-> TRUE, parent_flags |-> {"MESSAGE_RFC822"}] }

NewPart(parent) ==
    [has_parent |-> parent.has_parent, parent_flags |-> parent.parent_flags,
     context |-> NULL]

(***************************************************************************)
(* MessagePart trees.  A part is its flags, its body size, its context and *)
(* its children in order; the parent link is the position in the tree.     *)
(* The context of a part is what the header walk (part_parse_headers,      *)
(* lines 223-242) leaves after that part's header lines.                   *)
(***************************************************************************)
(***************************************************************************)
(* plugins/acl/acl-cache.c.  A struct acl_mask is the sequence of its      *)
(* bytes (its size is the length); a byte is the set of its bits that are  *)
(* set.  The hash table of objects is a function from the names to the     *)
(* object, NULL where the table has no entry.                              *)
(***************************************************************************)
CHAR_BIT == 8

ACL_ID_ANYONE == 0
ACL_ID_AUTHENTICATED == 1
ACL_ID_GROUP == 2
ACL_ID_USER == 3
ACL_ID_GROUP_OVERRIDE == 4
ACL_ID_TYPE_COUNT == 5

ObjNames == { "INBOX", "Trash" }

\* lines 13-21, as i_new leaves it at line 263
NewObjectCache ==
    [my_rights |-> [i \in 0..(ACL_ID_TYPE_COUNT - 1) |-> NULL],
     my_neg_rights |-> [i \in 0..(ACL_ID_TYPE_COUNT - 1) |-> NULL],
     my_current_rights |-> NULL]

\* lines 37-53
acl_cache_init ==
    [objects |-> [n \in ObjNames |-> NULL], right_idx_name_map |-> <<>>]

Max(a, b) == IF a >= b THEN a ELSE b
Min(a, b) == IF a <= b THEN a ELSE b

\* byte j of a mask or of a buffer; a buffer reads as zero past its end
MaskByte(m, j) == IF j <= Len(m) THEN m[j] ELSE {}

\* lines 118-139: names is right_idx_name_map, which also stands for the
\* hash table right_name_idx_map that is its inverse
acl_cache_right_lookup(names, right) ==
    IF \E i \in 1..Len(names) : names[i] = right
    THEN [idx |-> (CHOOSE i \in 1..Len(names) : names[i] = right) - 1,
          names |-> names]
    ELSE [idx |-> Len(names), names |-> Append(names, right)]

\* lines 95-99
RECURSIVE mask_init_loop(_, _, _)
mask_init_loop(names, rights, bitmask) ==
    IF rights = <<>> THEN [names |-> names, mask |-> bitmask]
    ELSE LET l == acl_cache_right_lookup(names, Head(rights))
             p == l.idx \div CHAR_BIT + 1
             grown == [j \in 1..Max(Len(bitmask), p) |-> MaskByte(bitmask, j)]
         IN mask_init_loop(l.names, Tail(rights),
                           [grown EXCEPT ![p] = @ \cup {l.idx % CHAR_BIT}])

\* lines 83-108
acl_cache_mask_init(names, rights) == mask_init_loop(names, rights, <<>>)

\* lines 184-225: the new *mask_p and whether the rights have changed
merge_masks(modify_mode, old_mask, change_mask) ==
    CASE modify_mode = "ADD" ->
            IF old_mask = NULL THEN [new_mask |-> change_mask, changed |-> TRUE]
            ELSE IF change_mask = NULL THEN [new_mask |-> old_mask, changed |-> FALSE]
            ELSE IF Len(old_mask[1]) >= Len(change_mask[1])
            THEN [new_mask |-> Some([j \in 1..Len(old_mask[1]) |->
                                       old_mask[1][j] \cup MaskByte(change_mask[1], j)]),
                  changed |-> TRUE]
            ELSE [new_mask |-> Some([j \in 1..Len(change_mask[1]) |->
                                       change_mask[1][j] \cup MaskByte(old_mask[1], j)]),
                  changed |-> TRUE]
      [] modify_mode = "REMOVE" ->
            IF old_mask = NULL \/ change_mask = NULL
            THEN [new_mask |-> old_mask, changed |-> FALSE]
            ELSE [new_mask |-> Some([j \in 1..Len(old_mask[1]) |->
                                       IF j <= Min(Len(old_mask[1]), Len(change_mask[1]))
                                       THEN old_mask[1][j] \ change_mask[1][j]
                                       ELSE old_mask[1][j]]),
                  changed |-> TRUE]
      [] modify_mode = "REPLACE" ->
            [new_mask |-> change_mask,
             changed |-> ~(old_mask = NULL /\ change_mask = NULL)]

\* an update that keeps my_current_rights when rights are removed
acl_cache_update_rights_mask_remove_keeps(names, current, modify_mode, rights, old_mask) ==
    LET init == IF rights = NULL THEN [names |-> names, mask |-> <<>>]
                ELSE acl_cache_mask_init(names, rights[1])
        change_mask == IF rights = NULL THEN NULL ELSE Some(init.mask)
        m == merge_masks(modify_mode, old_mask, change_mask)
    IN [names |-> init.names,
        mask |-> m.new_mask,
        current |-> IF m.changed /\ modify_mode # "REMOVE" /\ current # NULL
                    THEN NULL ELSE current]

\* lines 168-239: names is the right names mapping, current the object's
\* my_current_rights, old_mask the value of *mask_p
acl_cache_update_rights_mask(names, current, modify_mode, rights, old_mask) ==
    LET init == IF rights = NULL THEN [names |-> names, mask |-> <<>>]
                ELSE acl_cache_mask_init(names, rights[1])
        change_mask == IF rights = NULL THEN NULL ELSE Some(init.mask)
        m == merge_masks(modify_mode, old_mask, change_mask)
    IN [names |-> init.names,
        mask |-> m.new_mask,
        current |-> IF m.changed /\ current # NULL THEN NULL ELSE current]

\* lines 241-254
acl_cache_update_rights(names, obj_cache, rights) ==
    LET id_type == rights.id_type
        r1 == acl_cache_update_rights_mask(names, obj_cache.my_current_rights,
                                           rights.modify_mode, rights.rights,
                                           obj_cache.my_rights[id_type])
        r2 == acl_cache_update_rights_mask(r1.names, r1.current,
                                           rights.neg_modify_mode, rights.neg_rights,
                                           obj_cache.my_neg_rights[id_type])
    IN [names |-> r2.names,
        obj_cache |-> [my_rights |-> [obj_cache.my_rights EXCEPT ![id_type] = r1.mask],
                       my_neg_rights |->
                           [obj_cache.my_neg_rights EXCEPT ![id_type] = r2.mask],
                       my_current_rights |-> r2.current]]

\* lines 256-290: matches is what the backend answers about the identifier
\* (acl_backend_user_is_authenticated, _is_in_group, _name_equals)
acl_cache_update(c, objname, rights, matches) ==
    LET obj_cache == IF c.objects[objname] = NULL THEN NewObjectCache
                     ELSE c.objects[objname][1]
    IN IF rights.id_type = ACL_ID_ANYONE \/ matches
       THEN LET r == acl_cache_update_rights(c.right_idx_name_map, obj_cache, rights)
            IN [objects |-> [c.objects EXCEPT ![objname] = Some(r.obj_cache)],
                right_idx_name_map |-> r.names]
       ELSE [c EXCEPT !.objects[objname] = Some(obj_cache)]

\* lines 141-150
acl_cache_flush(c, objname) == [c EXCEPT !.objects[objname] = NULL]

\* lines 152-166
acl_cache_flush_all(c) == [c EXCEPT !.objects = [n \in ObjNames |-> NULL]]

\* p[j] |= mask[j] over the first size bytes of the buffer, grown as needed
or_into(bitmask, mask) ==
    [j \in 1..Max(Len(bitmask), Len(mask)) |->
        MaskByte(bitmask, j) \cup MaskByte(mask, j)]

\* lines 310-329, from id type i on
RECURSIVE recalculate_loop(_, _, _)
recalculate_loop(obj_cache, i, bitmask) ==
    IF i >= ACL_ID_TYPE_COUNT THEN bitmask
    ELSE LET b1 == IF obj_cache.my_rights[i] # NULL
                   THEN or_into(bitmask, obj_cache.my_rights[i][1]) ELSE bitmask
             b2 == IF obj_cache.my_neg_rights[i] # NULL
                   THEN or_into(b1, obj_cache.my_neg_rights[i][1]) ELSE b1
         IN recalculate_loop(obj_cache, i + 1, b2)

\* lines 299-338
acl_cache_my_current_rights_recalculate(obj_cache) ==
    [obj_cache EXCEPT !.my_current_rights = Some(recalculate_loop(obj_cache, 0, <<>>))]

\* lines 340-352: the cache after the call and the pointer returned
acl_cache_get_my_rights(c, objname) ==
    IF c.objects[objname] = NULL THEN [cache |-> c, ret |-> NULL]
    ELSE LET obj_cache == IF c.objects[objname][1].my_current_rights = NULL
                          THEN acl_cache_my_current_rights_recalculate(c.objects[objname][1])
                          ELSE c.objects[objname][1]
         IN [cache |-> [c EXCEPT !.objects[objname] = Some(obj_cache)],
             ret |-> obj_cache.my_current_rights]

RECURSIVE run_headers(_, _)
run_headers(p, lines) ==
    IF lines = <<>> THEN p
    ELSE run_headers(parse_header(p, Head(lines).name, Head(lines).value), Tail(lines))

ContextAfter(parent, lines) == run_headers(NewPart(parent), lines).context

NoParent == [has_parent |-> FALSE, parent_flags |-> {}]
UnderMultipart == [has_parent |-> TRUE, parent_flags |-> {"MULTIPART"}]
UnderRfc822 == [has_parent |-> TRUE, parent_flags |-> {"MESSAGE_RFC822"}]

MessagePart(flags, virtual_size, lines, context, children) ==
    [flags |-> flags, virtual_size |-> virtual_size, lines |-> lines,
     context |-> context, children |-> children]

H_none == <<>>
H_text == << Line("Content-Type", V_text_plain) >>
H_full ==
    << Line("Content-Type", V_TEXT_html),
       Line("Content-Transfer-Encoding", V_base64),
       Line("Content-ID", V_id1),
       Line("Content-Description", V_hello),
       Line("Content-Disposition", V_inline),
       Line("Content-MD5", V_id2),
       Line("Content-Language", V_lang_list) >>
H_image ==
    << Line("content-type", V_image_png),
       Line("Content-Disposition", V_attachment) >>
H_id == << Line("Content-ID", V_id1) >>
H_subject_text == << Line("Subject", V_hello), Line("Content-Type", V_text_plain) >>
H_message == << Line("Content-Type", V_message_rfc822) >>
H_multipart == << Line("Content-Type", V_multipart_mixed) >>
H_multipart_full ==
    << Line("Content-Type", V_multipart_mixed),
       Line("Content-Disposition", V_inline),
       Line("Content-Language", V_lang_fr) >>

LeafScripts == { H_none, H_text, H_full, H_image, H_id, H_subject_text }
ChildScripts == { H_none, H_full, H_subject_text }
MultipartScripts == { H_none, H_id, H_multipart, H_multipart_full }
MessageScripts == { H_none, H_message }

Leaves(parent) ==
    { MessagePart(f, 12, 1, ContextAfter(parent, h), <<>>) :
        f \in { {"TEXT"}, {} }, h \in LeafScripts }

ChildLeaves(parent) ==
    { MessagePart({"TEXT"}, 12, 1, ContextAfter(parent, h), <<>>) : h \in ChildScripts }
    \cup { MessagePart({}, 2048, 0, ContextAfter(parent, H_image), <<>>) }

Multiparts(parent, scripts, kids) ==
    { MessagePart({"MULTIPART"}, 0, 0, ContextAfter(parent, h), k) :
        h \in scripts, k \in kids }

Messages(parent, children) ==
    { MessagePart({"MESSAGE_RFC822"}, 40, 3, ContextAfter(parent, h), <<c>>) :
        h \in MessageScripts, c \in children }

\* parts nested two levels deep, under the given parent
NestedParts(parent) ==
    Multiparts(parent, {H_multipart},
        { <<m>> \o k :
            m \in Messages(UnderMultipart, ChildLeaves(UnderRfc822))
                  \cup Multiparts(UnderMultipart, {H_multipart, H_none},
                                  SeqsUpTo(ChildLeaves(UnderMultipart), 1)),
            k \in SeqsUpTo({MessagePart({"TEXT"}, 12, 1,
                                        ContextAfter(UnderMultipart, H_text), <<>>)}, 1) })
    \cup Messages(parent,
            Multiparts(UnderRfc822, {H_multipart, H_id},
                       SeqsUpTo(ChildLeaves(UnderMultipart), 1)))

Trees ==
    Leaves(NoParent)
    \cup Multiparts(NoParent, MultipartScripts,
                    SeqsUpTo(ChildLeaves(UnderMultipart), MaxChildren))
    \cup Messages(NoParent, ChildLeaves(UnderRfc822))
    \cup NestedParts(NoParent)

(***************************************************************************)
(* Tokens handed to parse_content_language in the token-by-token run.      *)
(***************************************************************************)
LangTokens ==
    { Atom("en-US"), Atom("az-arabic"), Special(","), Comment("comment"),
      QuotedString(""), Special(".") }

(***************************************************************************)
(* Idle values of the components a specification does not run.             *)
(***************************************************************************)
IdlePart == [has_parent |-> FALSE, parent_flags |-> {}, context |-> NULL]
IdleLang == [pc |-> "idle", tokens |-> <<>>, pos |-> 1, str |-> "", quoted |-> FALSE,
             language |-> NULL]
IdleTree == MessagePart({}, 0, 0, NULL, <<>>)
IdleBody == [plain |-> NULL, ext |-> NULL]
IdleReduced == [pc |-> "idle", value |-> NULL]
IdleArgs == <<>>
IdleCache == acl_cache_init
IdleAcl == [objname |-> "", ret |-> NULL, live |-> {}]

(***************************************************************************)
(* The header walk of one part: message_parse_header calls parse_header    *)
(* once per header line, in document order.                                *)
(***************************************************************************)
InitHeaders ==
    /\ run = "headers"
    /\ part \in { NewPart(p) : p \in Parents }
    /\ hdrs = <<>>
    /\ lang = IdleLang
    /\ tree = IdleTree /\ body = IdleBody /\ reduced = IdleReduced /\ args = IdleArgs
    /\ cache = IdleCache /\ acl = IdleAcl

ParseHeader ==
    /\ run = "headers"
    /\ Len(hdrs) < MaxHeaders
    /\ \E h \in HeaderLines :
          /\ part' = parse_header(part, h.name, h.value)
          /\ hdrs' = Append(hdrs, h)
    /\ UNCHANGED <<run, lang, tree, body, reduced, args, cache, acl>>

NextHeaders == ParseHeader

SpecHeaders == InitHeaders /\ [][NextHeaders]_vars

(***************************************************************************)
(* One call of parse_content_language, token by token.                     *)
(***************************************************************************)
InitLang ==
    /\ run = "language"
    /\ lang \in { [pc |-> "entry", tokens |-> ts, pos |-> 1, str |-> "",
                   quoted |-> FALSE, language |-> NULL] :
                  ts \in SeqsUpTo(LangTokens, MaxTokens) }
    /\ part = IdlePart /\ hdrs = <<>>
    /\ tree = IdleTree /\ body = IdleBody /\ reduced = IdleReduced /\ args = IdleArgs
    /\ cache = IdleCache /\ acl = IdleAcl

\* if (count <= 0) return;
LangReturnEmpty ==
    /\ run = "language"
    /\ lang.pc = "entry" /\ Len(lang.tokens) <= 0
    /\ lang' = [lang EXCEPT !.pc = "done"]
    /\ UNCHANGED <<run, part, hdrs, tree, body, reduced, args, cache, acl>>

LangEnter ==
    /\ run = "language"
    /\ lang.pc = "entry" /\ Len(lang.tokens) > 0
    /\ lang' = [lang EXCEPT !.pc = "loop"]
    /\ UNCHANGED <<run, part, hdrs, tree, body, reduced, args, cache, acl>>

LangToken ==
    /\ run = "language"
    /\ lang.pc = "loop" /\ lang.pos <= Len(lang.tokens)
    /\ LET s == language_token([str |-> lang.str, quoted |-> lang.quoted],
                               lang.tokens[lang.pos])
       IN lang' = [lang EXCEPT !.str = s.str, !.quoted = s.quoted,
                               !.pos = lang.pos + 1]
    /\ UNCHANGED <<run, part, hdrs, tree, body, reduced, args, cache, acl>>

LangFinish ==
    /\ run = "language"
    /\ lang.pc = "loop" /\ lang.pos > Len(lang.tokens)
    /\ LET str == language_close([str |-> lang.str, quoted |-> lang.quoted])
       IN lang' = [lang EXCEPT !.pc = "done", !.str = str, !.quoted = FALSE,
                               !.language = Some(str)]
    /\ UNCHANGED <<run, part, hdrs, tree, body, reduced, args, cache, acl>>

NextLang == LangReturnEmpty \/ LangEnter \/ LangToken \/ LangFinish

SpecLang == InitLang /\ [][NextLang]_vars

(***************************************************************************)
(* The writer and the reducer over one tree: part_get_bodystructure with   *)
(* extended FALSE (BODY) and TRUE (BODYSTRUCTURE), then                    *)
(* imap_body_parse_from_bodystructure of the BODYSTRUCTURE text.           *)
(***************************************************************************)
InitRender ==
    /\ run = "render"
    /\ tree \in Trees
    /\ body = IdleBody
    /\ reduced = IdleReduced
    /\ part = IdlePart /\ hdrs = <<>> /\ lang = IdleLang /\ args = IdleArgs
    /\ cache = IdleCache /\ acl = IdleAcl

RenderBody ==
    /\ run = "render"
    /\ body.plain = NULL
    /\ \E null_append \in NullAppends :
          body' = [body EXCEPT
                     !.plain = Some(part_get_bodystructure(tree, FALSE, null_append))]
    /\ UNCHANGED <<run, part, hdrs, lang, tree, reduced, args, cache, acl>>

RenderBodystructure ==
    /\ run = "render"
    /\ body.ext = NULL
    /\ \E null_append \in NullAppends :
          body' = [body EXCEPT
                     !.ext = Some(part_get_bodystructure(tree, TRUE, null_append))]
    /\ UNCHANGED <<run, part, hdrs, lang, tree, reduced, args, cache, acl>>

Reduce ==
    /\ run = "render"
    /\ reduced.pc = "idle"
    /\ body.ext # NULL /\ body.ext[1].status = "ok"
    /\ reduced' = [pc |-> "done",
                   value |-> imap_body_parse_from_bodystructure(body.ext[1].str)]
    /\ UNCHANGED <<run, part, hdrs, lang, tree, body, args, cache, acl>>

NextRender == RenderBody \/ RenderBodystructure \/ Reduce

SpecRender == InitRender /\ [][NextRender]_vars

(***************************************************************************)
(* The reducer over argument trees of any shape: the trees the parser      *)
(* gives for rendered BODYSTRUCTUREs, and those trees with one item        *)
(* replaced or with their tail cut off, at any depth.                      *)
(***************************************************************************)
Replacements ==
    { NilArg, AtomArg("7"), AtomArg("abc"), StringArg("x"), ListArg(<<>>),
      ListArg(<<StringArg("a"), StringArg("b")>>) }

RECURSIVE Damaged(_)
Damaged(a) ==
    { SubSeq(a, 1, k) : k \in 0..(Len(a) - 1) }
    \cup { [a EXCEPT ![i] = r] : i \in 1..Len(a), r \in Replacements }
    \cup UNION { { [a EXCEPT ![i] = ListArg(m)] : m \in Damaged(a[i].list) } :
                 i \in { j \in 1..Len(a) : a[j].type = "LIST" } }

TemplateTrees ==
    { MessagePart({"TEXT"}, 12, 1, ContextAfter(NoParent, H_full), <<>>),
      MessagePart({}, 2048, 0, ContextAfter(NoParent, H_image), <<>>),
      MessagePart({"MULTIPART"}, 0, 0, ContextAfter(NoParent, H_multipart_full),
                  << MessagePart({"TEXT"}, 12, 1, ContextAfter(UnderMultipart, H_text), <<>>),
                     MessagePart({}, 2048, 0, ContextAfter(UnderMultipart, H_image), <<>>) >>),
      MessagePart({"MESSAGE_RFC822"}, 40, 3, ContextAfter(NoParent, H_message),
                  << MessagePart({"TEXT"}, 12, 1,
                                 ContextAfter(UnderRfc822, H_subject_text), <<>>) >>) }

Templates ==
    { imap_parser_read_args(part_get_bodystructure(t, TRUE, "crash").str).args :
        t \in TemplateTrees }

ArgInputs == Templates \cup UNION { Damaged(a) : a \in Templates }

InitReduce ==
    /\ run = "reduce"
    /\ args \in ArgInputs
    /\ reduced = IdleReduced
    /\ part = IdlePart /\ hdrs = <<>> /\ lang = IdleLang
    /\ tree = IdleTree /\ body = IdleBody
    /\ cache = IdleCache /\ acl = IdleAcl

\* imap_body_parse_from_bodystructure once the parser has returned args
ReduceArgs ==
    /\ run = "reduce"
    /\ reduced.pc = "idle"
    /\ reduced' = [pc |-> "done", value |-> body_from_args(Len(args), args)]
    /\ UNCHANGED <<run, part, hdrs, lang, tree, body, args, cache, acl>>

NextReduce == ReduceArgs

SpecReduce == InitReduce /\ [][NextReduce]_vars

(***************************************************************************)
(* The ACL cache: any interleaving of acl_cache_update, acl_cache_flush,   *)
(* acl_cache_flush_all and acl_cache_get_my_rights on a new cache.         *)
(***************************************************************************)
AllRights ==
    << "lookup", "read", "write", "write-seen", "write-deleted",
       "insert", "post", "expunge", "admin" >>

\* no list, one right of the first byte, rights of two bytes
RightsLists == { NULL, Some(<<"lookup">>), Some(AllRights) }
ModifyModes == { "ADD", "REMOVE", "REPLACE" }

\* struct acl_rights, the fields the cache reads
AclRight(id_type, modify_mode, rights, neg_modify_mode, neg_rights) ==
    [id_type |-> id_type, modify_mode |-> modify_mode, rights |-> rights,
     neg_modify_mode |-> neg_modify_mode, neg_rights |-> neg_rights]

\* the updates made to INBOX: every change of the positive rights of anyone,
\* changes of the negative rights of anyone and of the user, a change of both
InboxRights ==
    { AclRight(ACL_ID_ANYONE, m, r, "ADD", NULL) :
        m \in ModifyModes, r \in RightsLists }
    \cup { AclRight(ACL_ID_ANYONE, "ADD", NULL, m, r) :
        m \in ModifyModes, r \in { NULL, Some(<<"lookup">>) } }
    \cup { AclRight(ACL_ID_USER, "ADD", NULL, m, r) :
        m \in ModifyModes, r \in { NULL, Some(AllRights) } }
    \cup { AclRight(ACL_ID_ANYONE, "REPLACE", Some(AllRights),
                    "REPLACE", Some(<<"lookup">>)) }

\* the updates made to any other object
OtherRights ==
    { AclRight(ACL_ID_ANYONE, "ADD", Some(<<"lookup">>), "ADD", NULL),
      AclRight(ACL_ID_USER, "ADD", NULL, "REPLACE", Some(AllRights)) }

AclRights(objname) == IF objname = "INBOX" THEN InboxRights ELSE OtherRights

InitAcl ==
    /\ run = "acl"
    /\ cache = acl_cache_init
    /\ acl = IdleAcl
    /\ part = IdlePart /\ hdrs = <<>> /\ lang = IdleLang
    /\ tree = IdleTree /\ body = IdleBody /\ reduced = IdleReduced /\ args = IdleArgs

AclCacheUpdate ==
    /\ run = "acl"
    /\ \E objname \in ObjNames, matches \in BOOLEAN :
       \E rights \in AclRights(objname) :
          /\ cache' = acl_cache_update(cache, objname, rights, matches)
          /\ acl' = [objname |-> "", ret |-> NULL, live |-> acl.live \cup {objname}]
    /\ UNCHANGED <<run, part, hdrs, lang, tree, body, reduced, args>>

AclCacheFlush ==
    /\ run = "acl"
    /\ \E objname \in ObjNames :
          /\ cache' = acl_cache_flush(cache, objname)
          /\ acl' = [objname |-> "", ret |-> NULL, live |-> acl.live \ {objname}]
    /\ UNCHANGED <<run, part, hdrs, lang, tree, body, reduced, args>>

AclCacheFlushAll ==
    /\ run = "acl"
    /\ cache' = acl_cache_flush_all(cache)
    /\ acl' = [objname |-> "", ret |-> NULL, live |-> {}]
    /\ UNCHANGED <<run, part, hdrs, lang, tree, body, reduced, args>>

AclCacheGetMyRights ==
    /\ run = "acl"
    /\ \E objname \in ObjNames :
          LET r == acl_cache_get_my_rights(cache, objname)
          IN /\ cache' = r.cache
             /\ acl' = [objname |-> objname, ret |-> r.ret, live |-> acl.live]
    /\ UNCHANGED <<run, part, hdrs, lang, tree, body, reduced, args>>

NextAcl == AclCacheUpdate \/ AclCacheFlush \/ AclCacheFlushAll \/ AclCacheGetMyRights

SpecAcl == InitAcl /\ [][NextAcl]_vars

(***************************************************************************)
(* The whole of the model: any of the five runs.                           *)
(***************************************************************************)
Init == InitHeaders \/ InitLang \/ InitRender \/ InitReduce \/ InitAcl

Next ==
    \/ ParseHeader
    \/ LangReturnEmpty \/ LangEnter \/ LangToken \/ LangFinish
    \/ RenderBody \/ RenderBodystructure \/ Reduce
    \/ ReduceArgs
    \/ AclCacheUpdate \/ AclCacheFlush \/ AclCacheFlushAll \/ AclCacheGetMyRights

Spec == Init /\ [][Next]_vars

(***************************************************************************)
(* Claims about the writer and the reducer over one tree (SpecRender).     *)
(***************************************************************************)
\* the top-level fields of a rendered text
Fields(text) == imap_parser_read_args(text).args

BothRendered ==
    /\ run = "render"
    /\ body.plain # NULL /\ body.plain[1].status = "ok"
    /\ body.ext # NULL /\ body.ext[1].status = "ok"

\* C1: rendering never fails: for every tree that satisfies the data-model
\* invariant and for both values of extended, part_get_bodystructure returns
\* text without a failed assertion and without using an undefined value.
C1_RenderNeverFails ==
    run = "render" =>
        /\ body.plain # NULL => body.plain[1].status = "ok"
        /\ body.ext # NULL => body.ext[1].status = "ok"

\* the fields a of a node's BODY rendering are a prefix of the fields b of its
\* BODYSTRUCTURE rendering: equal field by field, the fields that hold a child's
\* structure being compared the same way, child by child
RECURSIVE FieldPrefix(_, _, _)
FieldPrefix(p, a, b) ==
    /\ Len(a) <= Len(b)
    /\ \A i \in 1..Len(a) :
          IF "MULTIPART" \in p.flags /\ i <= Len(p.children)
          THEN /\ a[i].type = "LIST" /\ b[i].type = "LIST"
               /\ FieldPrefix(p.children[i], a[i].list, b[i].list)
          ELSE IF p.flags = {"MESSAGE_RFC822"} /\ i = 9
          THEN /\ a[i].type = "LIST" /\ b[i].type = "LIST"
               /\ FieldPrefix(p.children[1], a[i].list, b[i].list)
          ELSE a[i] = b[i]

\* C3: at every node of the tree the fields of the unextended rendering are a
\* prefix of the fields of the extended rendering: extended only appends fields.
C3_ExtendedAppendsFields ==
    BothRendered =>
        FieldPrefix(tree, Fields(body.plain[1].str), Fields(body.ext[1].str))

C3_Witness ==
    /\ BothRendered
    /\ "MULTIPART" \in tree.flags /\ Len(tree.children) = 2
    /\ "MESSAGE_RFC822" \in tree.children[1].flags
    /\ Len(Fields(body.ext[1].str)) = Len(Fields(body.plain[1].str)) + 3

\* a text leaf: a part flagged text, neither multipart nor message/rfc822, whose
\* rendered content type is text
IsTextLeaf(p, fields) ==
    /\ p.flags = {"TEXT"}
    /\ Len(fields) >= 1 /\ strcasecmp(fields[1].str, "text")

\* C4: for a text leaf, reducing its extended rendering succeeds, gives back the
\* eight fields type, subtype, params, content-id, description, encoding, size
\* and line count byte for byte, and holds none of the trailing md5,
\* disposition and language fields.
C4_TextLeafRoundTrip ==
    (/\ run = "render" /\ reduced.pc = "done"
     /\ IsTextLeaf(tree, Fields(body.ext[1].str)))
    => /\ reduced.value # NULL
       /\ Len(Fields(body.ext[1].str)) >= 11
       /\ Fields(reduced.value[1]) = SubSeq(Fields(body.ext[1].str), 1, 8)
       /\ reduced.value[1] = SubSeq(body.ext[1].str, 1, Len(reduced.value[1]))

C4_Witness ==
    /\ run = "render" /\ reduced.pc = "done"
    /\ IsTextLeaf(tree, Fields(body.ext[1].str))
    /\ tree.context # NULL
    /\ tree.context[1].content_md5 # NULL
    /\ tree.context[1].content_disposition # NULL
    /\ tree.context[1].content_language # NULL
    /\ reduced.value # NULL

\* C5: the extended rendering of a leaf has exactly three fields after those of
\* the unextended rendering: md5 or NIL, disposition or NIL, language or NIL;
\* a disposition is one list that holds the name and, nested, its params.
C5_LeafExtensionIsThreeFields ==
    (BothRendered /\ "MULTIPART" \notin tree.flags) =>
        LET a == Fields(body.plain[1].str)
            b == Fields(body.ext[1].str)
        IN /\ Len(b) = Len(a) + 3
           /\ (tree.context # NULL /\ tree.context[1].content_disposition # NULL)
                 => /\ b[Len(a) + 2].type = "LIST"
                    /\ Len(b[Len(a) + 2].list) = 2
                    /\ b[Len(a) + 2].list[1].type = "STRING"
                    /\ b[Len(a) + 2].list[2].type = "LIST"

(***************************************************************************)
(* Claims about the reducer over argument trees of any shape (SpecReduce). *)
(* A level is an argument list the reducer reduces: the top level, each    *)
(* leading list of a multipart, the bodystructure list of a message/rfc822.*)
(***************************************************************************)
\* the number of lists the argument list a begins with
RECURSIVE LeadingLists(_, _)
LeadingLists(a, k) ==
    IF ArgAt(a, k + 1).type = "LIST" THEN LeadingLists(a, k + 1) ELSE k

\* a params field: NIL, or a list of pairs of strings
IsParams(x) ==
    \/ x.type = "NIL"
    \/ /\ x.type = "LIST"
       /\ Len(x.list) % 2 = 0
       /\ \A i \in 1..Len(x.list) : x.list[i].type = "STRING"

\* the grammar of section 4.3 is broken at this level or at one nested in it
RECURSIVE Malformed(_)
Malformed(a) ==
    \/ Len(a) < 2
    \/ /\ a[1].type = "LIST"
       /\ LET k == LeadingLists(a, 0)
          IN \/ \E i \in 1..k : Malformed(a[i].list)
             \/ ArgAt(a, k + 1).type # "STRING"
    \/ /\ a[1].type # "LIST"
       /\ \/ a[1].type # "STRING"
          \/ a[2].type # "STRING"
          \/ ~IsParams(ArgAt(a, 3))
          \/ Len(a) < 7
          \/ /\ a[1].type = "STRING" /\ strcasecmp(a[1].str, "text")
             /\ ArgAt(a, 8).type # "ATOM"
          \/ /\ a[1].type = "STRING" /\ strcasecmp(a[1].str, "message")
             /\ a[2].type = "STRING" /\ strcasecmp(a[2].str, "rfc822")
             /\ \/ ArgAt(a, 8).type # "LIST"
                \/ ArgAt(a, 9).type # "LIST"
                \/ ArgAt(a, 10).type # "ATOM"
                \/ Malformed(a[9].list)

\* C2: the reducer fails, returning no text at all, whenever some level has
\* fewer than two items, holds the wrong kind of argument at a position whose
\* kind is fixed, or lacks a required item; a nested level that is malformed
\* fails the whole call.
C2_MalformedFails ==
    (run = "reduce" /\ reduced.pc = "done" /\ Malformed(args))
        => reduced.value = NULL

C2_Witness ==
    /\ run = "reduce" /\ reduced.pc = "done"
    /\ Len(args) >= 3
    /\ args[1].type = "LIST" /\ ~Malformed(args[1].list)
    /\ args[2].type = "LIST" /\ Len(args[2].list) = 1
    /\ args[3].type = "STRING"
    /\ reduced.value = NULL

\* "(" child ")" for each of the first k lists of a, reduced, in order
RECURSIVE ReducedChildren(_, _)
ReducedChildren(a, k) ==
    IF k = 0 THEN ""
    ELSE ReducedChildren(a, k - 1)
         \o "(" \o imap_parse_bodystructure_args(a[k].list, "").str \o ")"

\* C8: an argument list that begins with lists is a multipart: every leading
\* list is reduced and written as one parenthesized child, in order and with
\* nothing between children, then the quoted subtype that follows the lists;
\* every further item is dropped; the call fails if a child fails or the item
\* after the lists is no quoted string.
C8_MultipartReduction ==
    (run = "reduce" /\ reduced.pc = "done" /\ ArgAt(args, 1).type = "LIST") =>
        LET k == LeadingLists(args, 0)
        IN IF /\ \A i \in 1..k : imap_parse_bodystructure_args(args[i].list, "").ok
              /\ ArgAt(args, k + 1).type = "STRING"
           THEN reduced.value =
                    Some(ReducedChildren(args, k) \o " \"" \o args[k + 1].str \o "\"")
           ELSE reduced.value = NULL

C8_Witness ==
    /\ run = "reduce" /\ reduced.pc = "done"
    /\ LeadingLists(args, 0) = 2
    /\ Len(args) = 6
    /\ reduced.value # NULL
    /\ Len(Fields(reduced.value[1])) = 3

\* the type and the subtype a leaf is rendered with
RenderedType(p) ==
    IF p.context = NULL THEN "\"text\"" ELSE NVL(p.context[1].content_type, "\"text\"")
RenderedSubtype(p) ==
    IF p.context = NULL THEN "\"plain\""
    ELSE NVL(p.context[1].content_subtype, "\"plain\"")

\* at every leaf of the tree the text and message/rfc822 flags say what the
\* rendered type and subtype say
RECURSIVE FlagsAgree(_)
FlagsAgree(p) ==
    /\ "MULTIPART" \notin p.flags =>
          /\ ("TEXT" \in p.flags) <=> strcasecmp(RenderedType(p), "\"text\"")
          /\ ("MESSAGE_RFC822" \in p.flags) <=>
                (/\ strcasecmp(RenderedType(p), "\"message\"")
                 /\ strcasecmp(RenderedSubtype(p), "\"rfc822\""))
    /\ \A i \in 1..Len(p.children) : FlagsAgree(p.children[i])

\* every multipart of the tree has metadata with a subtype, so that its
\* rendering reads no missing value
RECURSIVE MultipartsHaveSubtype(_)
MultipartsHaveSubtype(p) ==
    /\ "MULTIPART" \in p.flags =>
          p.context # NULL /\ p.context[1].content_subtype # NULL
    /\ \A i \in 1..Len(p.children) : MultipartsHaveSubtype(p.children[i])

\* C11: for every tree whose text and message/rfc822 flags agree with its
\* rendered types, reducing the extended rendering succeeds and gives the
\* unextended rendering, trees with message/rfc822 parts included: the child
\* structure keeps its own pair of parentheses and an envelope rendered as NIL
\* does not make the reduction fail.
C11_ReduceOfExtendedIsBody ==
    (/\ BothRendered /\ reduced.pc = "done"
     /\ FlagsAgree(tree) /\ MultipartsHaveSubtype(tree))
    => reduced.value = Some(body.plain[1].str)

(***************************************************************************)
(* More claims about the reducer over argument trees (SpecReduce).         *)
(***************************************************************************)
\* at every leaf, at any depth, the four items after the params field are
\* NIL, atoms or quoted strings
RECURSIVE CopiedKindsOk(_)
CopiedKindsOk(a) ==
    IF ArgAt(a, 1).type = "LIST"
    THEN \A i \in 1..LeadingLists(a, 0) : CopiedKindsOk(a[i].list)
    ELSE /\ \A i \in 4..7 : ArgAt(a, i).type \in {"NIL", "ATOM", "STRING"}
         /\ (/\ ArgAt(a, 1).type = "STRING" /\ strcasecmp(a[1].str, "message")
             /\ ArgAt(a, 2).type = "STRING" /\ strcasecmp(a[2].str, "rfc822")
             /\ ArgAt(a, 9).type = "LIST")
            => CopiedKindsOk(a[9].list)

\* the reduction of a leaf holds the four items as they were given
CopiedVerbatim ==
    /\ Len(Fields(reduced.value[1])) >= 7
    /\ SubSeq(Fields(reduced.value[1]), 4, 7) = SubSeq(args, 4, 7)

\* C12 as stated: at a leaf the four items after the params field are copied
\* verbatim whatever their kind, a list included; their kind never makes the
\* reduction fail, and atoms are not validated as numbers.
C12_CopiedWhateverKind ==
    (run = "reduce" /\ reduced.pc = "done" /\ ~Malformed(args)) =>
        /\ reduced.value # NULL
        /\ ArgAt(args, 1).type # "LIST" => CopiedVerbatim

\* C12, amended: at a leaf the four items after the params field are copied
\* verbatim when each is NIL, an atom or a quoted string, atoms that are no
\* numbers included; a list among them makes the reduction fail, at any
\* depth, and is the only failure of a tree that is otherwise well formed.
C12_CopiedUnlessList ==
    (run = "reduce" /\ reduced.pc = "done" /\ ~Malformed(args)) =>
        /\ reduced.value # NULL <=> CopiedKindsOk(args)
        /\ (reduced.value # NULL /\ ArgAt(args, 1).type # "LIST") => CopiedVerbatim

C12_Witness ==
    /\ run = "reduce" /\ reduced.pc = "done" /\ ~Malformed(args)
    /\ args[1].type = "STRING"
    /\ args[4].type = "STRING" /\ args[6].type = "STRING"
    /\ args[7] = AtomArg("abc")
    /\ reduced.value # NULL
    /\ CopiedVerbatim

(***************************************************************************)
(* Claims about the header walk of one part (SpecHeaders).                 *)
(***************************************************************************)
\* the headers whose fields are set once, and the fields each one sets
ScalarHeaders ==
    { "Content-Type", "Content-Transfer-Encoding", "Content-ID",
      "Content-Description", "Content-MD5", "Content-Disposition" }

FieldsOfHeader(h) ==
    CASE h = "Content-Type" ->
            {"content_type", "content_subtype", "content_type_params"}
      [] h = "Content-Transfer-Encoding" -> {"content_transfer_encoding"}
      [] h = "Content-ID" -> {"content_id"}
      [] h = "Content-Description" -> {"content_description"}
      [] h = "Content-MD5" -> {"content_md5"}
      [] h = "Content-Disposition" ->
            {"content_disposition", "content_disposition_params"}

ContentFields ==
    { "content_type", "content_subtype", "content_type_params",
      "content_transfer_encoding", "content_id", "content_description",
      "content_disposition", "content_disposition_params", "content_md5",
      "content_language" }

\* the places in hs of the header named h, whatever its case
Occurrences(h, hs) == { i \in 1..Len(hs) : strcasecmp(hs[i].name, h) }
Least(S) == CHOOSE i \in S : \A j \in S : i <= j
Greatest(S) == CHOOSE i \in S : \A j \in S : j <= i

\* the metadata of a fresh part with the same parent after the one line l
Alone(l) ==
    parse_header([part EXCEPT !.context = NULL], l.name, l.value).context[1]

FieldOf(p, f) == IF p.context = NULL THEN NULL ELSE p.context[1][f]

\* every set-once field holds what the first occurrence of its header gives
FirstOccurrenceWins(p, hs) ==
    \A h \in ScalarHeaders : \A f \in FieldsOfHeader(h) :
        FieldOf(p, f) = IF Occurrences(h, hs) = {} THEN NULL
                        ELSE Alone(hs[Least(Occurrences(h, hs))])[f]

\* this step delivers a set-once header that was delivered before
RepeatedScalarStep ==
    /\ run = "headers" /\ Len(hdrs') = Len(hdrs) + 1
    /\ \E h \in ScalarHeaders :
          /\ strcasecmp(hdrs'[Len(hdrs')].name, h)
          /\ Occurrences(h, hdrs) # {}

\* C6 as stated: the set-once fields hold the value of the first occurrence of
\* their header, and a later occurrence of a set-once header leaves that
\* field and all other fields unchanged.
C6_LaterOccurrenceChangesNothing ==
    [][ /\ run = "headers" => FirstOccurrenceWins(part', hdrs')
        /\ RepeatedScalarStep => part' = part ]_vars

\* C6, amended: the set-once fields hold the value of the first occurrence of
\* their header, and a later occurrence of a set-once header leaves every
\* content field, language included, unchanged; only the envelope of a part
\* under a message/rfc822 parent may change, the repeated header being handed
\* to the envelope builder.
C6_FirstOccurrenceWins ==
    [][ /\ run = "headers" => FirstOccurrenceWins(part', hdrs')
        /\ RepeatedScalarStep =>
              /\ \A f \in ContentFields : FieldOf(part', f) = FieldOf(part, f)
              /\ ~parent_is_rfc822(part) => part' = part ]_vars

C6_Witness ==
    /\ run = "headers" /\ Len(hdrs) = 3
    /\ hdrs[1].name = "Content-Transfer-Encoding"
    /\ hdrs[2].name = "Content-Language"
    /\ hdrs[3].name = "CONTENT-TRANSFER-ENCODING"
    /\ hdrs[1].value # hdrs[3].value
    /\ FieldOf(part, "content_transfer_encoding") = Some("\"7bit\"")

\* C7 as stated: language is the parse result of the last Content-Language
\* header, absent if that header had no tokens.
C7_LastLanguageWins ==
    run = "headers" =>
        LET o == Occurrences("Content-Language", hdrs)
        IN FieldOf(part, "content_language") =
              IF o = {} \/ hdrs[Greatest(o)].value.main = <<>> THEN NULL
              ELSE Alone(hdrs[Greatest(o)]).content_language

\* C7, amended: language is the parse result of the last Content-Language
\* header that had at least one token, absent if there was none; a
\* Content-Language header without tokens leaves language as it was.
C7_LastTokenfulLanguageWins ==
    run = "headers" =>
        LET o == { i \in Occurrences("Content-Language", hdrs) :
                     hdrs[i].value.main # <<>> }
        IN FieldOf(part, "content_language") =
              IF o = {} THEN NULL
              ELSE Alone(hdrs[Greatest(o)]).content_language

C7_Witness ==
    /\ run = "headers" /\ Len(hdrs) = 3
    /\ \A i \in 1..3 : hdrs[i].name = "Content-Language"
    /\ hdrs[1].value = V_lang_fr
    /\ hdrs[2].value = V_lang_list
    /\ hdrs[3].value = V_empty
    /\ FieldOf(part, "content_language") = Some("\"en-US\" \"az-arabic\"")

\* the name begins with "Content-", whatever its case
HasContentPrefix(name) ==
    /\ Len(name) >= 8
    /\ \A i \in 1..8 : tolower(CharAt(name, i)) = CharAt("content-", i)

\* C10: a header whose name does not begin with Content- (in any case), on a
\* part whose parent is not message/rfc822 or that has no parent, changes
\* nothing and attaches no metadata; on a part whose parent is message/rfc822
\* every header attaches metadata, to that part and to nothing else.
C10_IrrelevantHeaderDropped ==
    [][ (run = "headers" /\ Len(hdrs') = Len(hdrs) + 1) =>
          LET name == hdrs'[Len(hdrs')].name
          IN /\ (~HasContentPrefix(name) /\ ~parent_is_rfc822(part)) => part' = part
             /\ parent_is_rfc822(part) =>
                   /\ part'.context # NULL
                   /\ part' = [part EXCEPT !.context = part'.context] ]_vars

C10_Witness ==
    /\ run = "headers" /\ Len(hdrs) = 2
    /\ hdrs[1].name = "Contentment" /\ hdrs[2].name = "Subject"
    /\ part.has_parent /\ ~parent_is_rfc822(part)
    /\ part.context = NULL

(***************************************************************************)
(* Claims about one call of parse_content_language (SpecLang).             *)
(***************************************************************************)
\* the tokens between commas, comments left out: one group per tag
RECURSIVE TagGroups(_, _, _)
TagGroups(tokens, open, groups) ==
    IF tokens = <<>> THEN (IF open = <<>> THEN groups ELSE Append(groups, open))
    ELSE LET t == Head(tokens)
         IN IF t.token = "(" THEN TagGroups(Tail(tokens), open, groups)
            ELSE IF t.token = ","
            THEN TagGroups(Tail(tokens), <<>>,
                           IF open = <<>> THEN groups ELSE Append(groups, open))
            ELSE TagGroups(Tail(tokens), Append(open, t), groups)

TokenText(t) == IF t.token \in {"A", "\""} THEN t.text ELSE t.token

RECURSIVE TagText(_)
TagText(group) ==
    IF group = <<>> THEN "" ELSE TokenText(Head(group)) \o TagText(Tail(group))

RECURSIVE JoinQuoted(_)
JoinQuoted(groups) ==
    IF groups = <<>> THEN ""
    ELSE "\"" \o TagText(Head(groups)) \o "\""
         \o (IF Len(groups) > 1 THEN " " ELSE "")
         \o JoinQuoted(Tail(groups))

\* the output is the tags of the groups, each in its own pair of quotes,
\* joined by single spaces; absent when there is no token at all
LanguageAsSpecified ==
    LET groups == TagGroups(lang.tokens, <<>>, <<>>)
        parsed == imap_parser_read_args(lang.str)
    IN /\ lang.language = IF lang.tokens = <<>> THEN NULL ELSE Some(JoinQuoted(groups))
       /\ lang.tokens # <<>> =>
             /\ lang.language[1] = lang.str
             /\ parsed.ok /\ Len(parsed.args) = Len(groups)
             /\ \A i \in 1..Len(groups) :
                   /\ parsed.args[i].type = "STRING"
                   /\ parsed.args[i].str = TagText(groups[i])
       /\ lang.tokens = V_lang_list.main => lang.str = "\"en-US\" \"az-arabic\""

\* C9 as stated: the parser never fails and gives the space-joined quoted
\* tags; every quote is matched and no empty tag "" is ever written.
C9_NoEmptyTag ==
    (run = "language" /\ lang.pc = "done") =>
        /\ LanguageAsSpecified
        /\ \A i \in 1..Len(imap_parser_read_args(lang.str).args) :
              imap_parser_read_args(lang.str).args[i].str # ""

\* C9, amended: the parser never fails and gives the space-joined quoted
\* tags; every quote is matched; a tag is empty only when every token of it
\* is a quoted string without text.
C9_LanguageTags ==
    (run = "language" /\ lang.pc = "done") =>
        /\ LanguageAsSpecified
        /\ \A g \in { TagGroups(lang.tokens, <<>>, <<>>)[i] :
                        i \in 1..Len(TagGroups(lang.tokens, <<>>, <<>>)) } :
              TagText(g) = "" =>
                 \A j \in 1..Len(g) : g[j].token = "\"" /\ g[j].text = ""

C9_Witness ==
    /\ run = "language" /\ lang.pc = "done"
    /\ lang.tokens = V_lang_list.main
    /\ lang.language = Some("\"en-US\" \"az-arabic\"")

(***************************************************************************)
(* Claims about the ACL cache (SpecAcl).                                   *)
(***************************************************************************)
\* the rights of a mask, as indexes into the right names mapping
MaskBits(m) == UNION { { (j - 1) * CHAR_BIT + b : b \in m[j] } : j \in 1..Len(m) }

OptionBits(mask_p) == IF mask_p = NULL THEN {} ELSE MaskBits(mask_p[1])

\* the id types walked in order from i on: the positive rights of an id type
\* are added, then its negative rights are taken away
RECURSIVE RightsWithOverride(_, _, _)
RightsWithOverride(obj_cache, i, bits) ==
    IF i >= ACL_ID_TYPE_COUNT THEN bits
    ELSE RightsWithOverride(obj_cache, i + 1,
             (bits \cup OptionBits(obj_cache.my_rights[i]))
                 \ OptionBits(obj_cache.my_neg_rights[i]))

\* C13: negative rights override positive rights: the mask that
\* acl_cache_get_my_rights returns holds, walking the id types in order, the
\* positive rights of each id type added and then its negative rights
\* removed, so that a right granted and negated for the same id type, or
\* granted for an earlier id type and negated for a later one, is absent.
C13_NegativeRightsOverride ==
    (run = "acl" /\ acl.objname # "" /\ acl.ret # NULL) =>
        MaskBits(acl.ret[1]) =
            RightsWithOverride(cache.objects[acl.objname][1], 0, {})

\* what a recalculation from the masks of the object gives: every byte is
\* the union of that byte over all its masks, as long as the longest mask
AllMasks(obj_cache) ==
    { obj_cache.my_rights[i] : i \in 0..(ACL_ID_TYPE_COUNT - 1) }
    \cup { obj_cache.my_neg_rights[i] : i \in 0..(ACL_ID_TYPE_COUNT - 1) }

FreshRights(obj_cache) ==
    LET masks == { mask_p[1] : mask_p \in AllMasks(obj_cache) \ {NULL} }
        size == IF masks = {} THEN 0
                ELSE CHOOSE n \in { Len(m) : m \in masks } :
                         \A m \in masks : Len(m) <= n
    IN [j \in 1..size |-> UNION { MaskByte(m, j) : m \in masks }]

\* C14: after any interleaving of updates, flushes and lookups a cached
\* my_current_rights is what a recalculation from the object's masks gives;
\* an object is in the cache exactly when it was updated since it was last
\* flushed, and acl_cache_get_my_rights returns NULL exactly for the objects
\* that are not, the current rights otherwise.
C14_CurrentRightsNeverStale ==
    run = "acl" =>
        /\ \A n \in ObjNames :
              /\ cache.objects[n] = NULL <=> n \notin acl.live
              /\ (cache.objects[n] # NULL
                    /\ cache.objects[n][1].my_current_rights # NULL)
                 => cache.objects[n][1].my_current_rights
                        = Some(FreshRights(cache.objects[n][1]))
        /\ acl.objname # "" =>
              /\ acl.ret = NULL <=> acl.objname \notin acl.live
              /\ acl.ret # NULL =>
                    acl.ret = Some(FreshRights(cache.objects[acl.objname][1]))

C14_Witness ==
    /\ run = "acl" /\ acl.live = { "INBOX", "Trash" }
    /\ acl.objname = "INBOX" /\ acl.ret # NULL /\ Len(acl.ret[1]) = 2
    /\ cache.objects["INBOX"][1].my_rights[ACL_ID_ANYONE] = Some(<<{}>>)
    /\ cache.objects["INBOX"][1].my_neg_rights[ACL_ID_USER] # NULL
    /\ cache.objects["Trash"][1].my_current_rights = NULL

=============================================================================
